---- MODULE Spec2Model ----
(***************************************************************************)
(* Model of the quiz generation core of jes/quizgenerator: the Question    *)
(* Pool, the Question Maker, Checker and Deduper, the Transcript Logger    *)
(* and the orchestrator goroutine of QuizGenerator.GenerateQuizStream.     *)
(*                                                                         *)
(* A Question is a record; its Text and Explanation are opaque strings     *)
(* that no branch of the code inspects and are left out.  Question ids are *)
(* drawn fresh (generateQuestionID draws 8 random characters).  The  LLM   *)
(* behind the Gateway is the environment: every response it can give is a  *)
(* nondeterministic choice.                                                *)
(***************************************************************************)
EXTENDS Integers, Sequences, FiniteSets, TLC

VARIABLES
    pool,          \* QuizGenerator.pool: [questions: id -> Question, queue: Seq(id)]
    cache,         \* QuestionDedup.cache: id -> Question (the accepted-set)
    messages,      \* QuestionMaker.messages: the conversation
    logger,        \* QuizGenerator.logger: "nil" or "open"/"closed" (state of its file)
    loggerMu,      \* LLMLogger.mu: "unlocked" or "locked"
    req,           \* the GenerationRequest of the current run
    streamErr,     \* the error GenerateQuizStream returned for the current run
    pc,            \* position of the orchestrator goroutine
    acceptedCount, \* local of the goroutine
    batchSize,     \* local of the goroutine
    question,      \* local of the goroutine: the candidate under judgement
    deferLogger,   \* whether the goroutine deferred qg.logger.Close()
    chanBuf,       \* questionChan: buffered, unreceived items
    chanClosed,    \* questionChan has been closed
    cancelled,     \* ctx.Done() is closed (cancel or deadline)
    inflight,      \* Gateway calls in flight: a sequence of stage names
    runs,          \* number of GenerateQuizStream calls made on this generator
    nextId,        \* number of question ids handed out
    makerCalls,    \* number of Maker calls made on this generator
    sent,          \* history: the items sent on questionChan in this run, as sent
    dedupCalls,    \* history: id -> the last CheckDuplicate call on it in this run
    acceptedQuestions, \* GenerateQuiz's local: the items received so far
    quiz,          \* the Quiz GenerateQuiz returned, NoQuiz before
    quizErr,       \* "none" until GenerateQuiz ends, then "nil", "error" or "panic"
    makerErr,      \* local of the goroutine: "error" if its last Maker call failed, else "nil"
    refills,       \* history: [accepted, size] at each Maker call of the run
    preShuffle,    \* history: the accepted candidate before randomizeAnswerOrder
    validation,    \* local of the goroutine: the result of its last CheckQuestion call
    dbStatus,      \* the status of the quiz row, "none" before it is inserted
    dbQuestions,   \* the rows of the questions table for the quiz, in insertion order
    questionNum,   \* DB.GenerateQuiz's local
    firstQuestionGenerated, \* DB.GenerateQuiz's local
    dbPc,          \* position of DB.GenerateQuiz
    fifo,          \* reference of the pool driven alone: its items, oldest first
    response,      \* the Gateway response a stage has received and not yet handled
    session,       \* the multiplayer session of the server, NoSession before it is created
    handlers,      \* the multiplayer requests being handled, each with its position
    requestCount,  \* number of multiplayer requests received
    scoreLog       \* history: <<player, question>> -> times the score was incremented for it

vars == <<pool, cache, messages, logger, loggerMu, req, streamErr, pc,
          acceptedCount, batchSize, question, deferLogger, chanBuf, chanClosed,
          cancelled, inflight, runs, nextId, makerCalls, sent, dedupCalls,
          acceptedQuestions, quiz, quizErr, makerErr, refills, preShuffle,
          validation, dbStatus, dbQuestions, questionNum,
          firstQuestionGenerated, dbPc, fifo,
          response,
          session,
          handlers,
          requestCount,
          scoreLog>>

\* the state of the generator, of its run and of DB.GenerateQuiz
generatorVars ==
    <<pool, cache, messages, logger, loggerMu, req, streamErr, pc,
      acceptedCount, batchSize, question, deferLogger, chanBuf, chanClosed,
      cancelled, inflight, runs, nextId, makerCalls, sent, dedupCalls,
      acceptedQuestions, quiz, quizErr, makerErr, refills, preShuffle,
      validation, questionNum, firstQuestionGenerated, dbPc, fifo, response>>

\* the state of DB.GenerateQuiz and of the rows it writes
dbVars == <<dbStatus, dbQuestions, questionNum, firstQuestionGenerated, dbPc>>

(***************************************************************************)
(* Bounds of the model.                                                    *)
(***************************************************************************)
MaxNumQuestions == 2      \* largest req.NumQuestions tried
MaxIds == 2               \* questions the Maker's LLM returns over the generator's life
MaxBatchReturned == 2     \* most questions in one Maker response
MaxMakerCalls == 1        \* Maker calls that may succeed; later ones fail
MaxRuns == 2              \* GenerateQuizStream calls on one generator
MaxEmptyBatches == 3      \* empty Maker responses in a run of empty responses
MaxPoolIds == 3           \* question ids used when the pool is driven alone
MaxPoolSize == 3          \* most items in the pool when it is driven alone
MaxJoined == 2            \* players in the multiplayer session, the host included
MaxRequests == 4          \* join, start and answer requests made to the session
StoredQuestions == 3      \* questions of the quiz the session is played over

(***************************************************************************)
(* Program constants.                                                      *)
(***************************************************************************)
RevisionLimit == 3
InitialBatchSize == 5
BatchSizeStep == 2
BatchSizeCeiling == 10
NumOptions == 4

StatusTentative == "tentative"
StatusAccepted == "accepted"
StatusRejected == "rejected"
StatusRevised == "revised"

ActionAccept == "accept"
ActionReject == "reject"
ActionRevise == "revise"

NumQuestionsRange == (0 - 1)..MaxNumQuestions

\* the requests tried on a fresh generator: a topic with every count, and the
\* empty topic
FreshRequests ==
    { [topic |-> "t1", numQuestions |-> n] : n \in NumQuestionsRange }
    \cup { [topic |-> "", numQuestions |-> 1] }

\* the requests tried when a generator is used for several runs
ReuseRequests ==
    { [topic |-> t, numQuestions |-> n] : t \in {"t1", "t2"}, n \in 1..MaxNumQuestions }

\* What the LLM may put in one question of a tool-call payload: the code
\* copies options and correct_answer without looking at them.
Payloads ==
    { [options |-> <<"a", "b", "c", "d">>, correct_answer |-> 1],
      [options |-> <<"a", "b", "c">>, correct_answer |-> 5] }

\* Ways a Gateway call fails in a stage: transport error, zero choices,
\* zero tool calls, wrong tool name, unparsable arguments.
\* What the Checker's LLM may put in the revised_question of a verdict
RevisedPayloads ==
    { [options |-> <<"a", "b", "c", "d">>, correct_answer |-> 2] }

GatewayErrors == {"transport", "nochoices", "notoolcalls", "wrongname", "parse"}

NoQuestion ==
    [id |-> 0, options |-> <<>>, correctAnswer |-> 0, topic |-> "",
     status |-> "", revisionCount |-> 0]

\* no multiplayer session
NoSession == [Status |-> "none", CurrentQ |-> 0, Players |-> <<>>, Answers |-> <<>>]

NoScores == [k \in {} |-> 0]

\* no Gateway response at hand
NoResponse ==
    [received |-> FALSE, err |-> FALSE, choices |-> 0, toolCalls |-> <<>>,
     parses |-> FALSE]

NoQuiz == [topic |-> "", questions |-> <<>>, totalQuestions |-> 0]

NoRequest == [topic |-> "", numQuestions |-> 0]

min(a, b) == IF a < b THEN a ELSE b

\* m with key k set to v (Go: m[k] = v)
MapPut(m, k, v) == [x \in (DOMAIN m) \cup {k} |-> IF x = k THEN v ELSE m[x]]

\* m without key k (Go: delete(m, k))
MapDelete(m, k) == [x \in (DOMAIN m) \ {k} |-> m[x]]

EmptyMap == [x \in {} |-> NoQuestion]

(***************************************************************************)
(* Question Pool                                                           *)
(***************************************************************************)
NewQuestionPool == [questions |-> EmptyMap, queue |-> <<>>]

PoolAdd_Front(p, q) ==
    LET stamped == [q EXCEPT !.status = StatusTentative]
    IN  [questions |-> MapPut(p.questions, q.id, stamped),
         queue |-> <<q.id>> \o p.queue]

\* Add: the status is set to tentative (CreatedAt is not modelled), the
\* question is stored under its id and the id appended to the queue
PoolAdd(p, q) ==
    LET stamped == [q EXCEPT !.status = StatusTentative]
    IN  [questions |-> MapPut(p.questions, q.id, stamped),
         queue |-> Append(p.queue, q.id)]

PoolSize(p) == Len(p.queue)

PoolIsEmpty(p) == PoolSize(p) = 0

PoolGetQuestion_Last(p) == p.questions[p.queue[Len(p.queue)]]

\* Get on a non-empty pool: the head and the pool without it
PoolGetQuestion(p) == p.questions[Head(p.queue)]

PoolGetRest_KeepsEntry(p) ==
    [questions |-> p.questions,
     queue |-> Tail(p.queue)]

\* the pool after Get: the head is gone from the queue and from the map
PoolGetRest(p) ==
    [questions |-> MapDelete(p.questions, Head(p.queue)),
     queue |-> Tail(p.queue)]

\* Get: nil on an empty queue, else the question stored under the id at the
\* head, which is removed from the queue and from the map
PoolGet(p) ==
    IF Len(p.queue) = 0
    THEN [question |-> NoQuestion, pool |-> p]
    ELSE [question |-> PoolGetQuestion(p), pool |-> PoolGetRest(p)]

RECURSIVE PoolAddAll(_, _)
PoolAddAll(p, qs) ==
    IF qs = <<>> THEN p ELSE PoolAddAll(PoolAdd(p, Head(qs)), Tail(qs))

(***************************************************************************)
(* Transcript Logger                                                       *)
(***************************************************************************)
\* sync.Mutex.Lock returns only when the mutex is unlocked; it is not
\* reentrant.
MutexCanLock(mu) == mu = "unlocked"

\* Logf locks ll.mu, writes, and unlocks: a stage that logs can proceed only
\* when the mutex can be taken.  Without a logger the stages do not log.
CanLog == logger = "nil" \/ MutexCanLock(loggerMu)

\* Close: ll.mu.Lock(); defer ll.mu.Unlock(); if ll.file != nil, three Logf
\* calls and file.Close().  Called with the mutex free.  Each Logf locks ll.mu
\* again while Close holds it.
LoggerClose(file) ==
    LET held == "locked"
    IN  IF file # "nil"
        THEN IF MutexCanLock(held)
             THEN [returns |-> TRUE, mu |-> "unlocked", file |-> "closed"]
             ELSE [returns |-> FALSE, mu |-> held, file |-> file]
        ELSE [returns |-> TRUE, mu |-> "unlocked", file |-> file]

(***************************************************************************)
(* randomizeAnswerOrder                                                    *)
(***************************************************************************)
\* s with the elements at 0-based positions a and b exchanged
Swap(s, a, b) ==
    [i \in 1..Len(s) |-> IF i = a + 1 THEN s[b + 1]
                         ELSE IF i = b + 1 THEN s[a + 1] ELSE s[i]]

\* the Fisher-Yates loop, i = 3, 2, 1, with rand.Intn(i+1) = j3, j2, j1
ShuffledIndices(j3, j2, j1) ==
    Swap(Swap(Swap(<<0, 1, 2, 3>>, 3, j3), 2, j2), 1, j1)

\* every permutation the loop can produce
Permutations4 ==
    { ShuffledIndices(j3, j2, j1) : j3 \in 0..3, j2 \in 0..2, j1 \in 0..1 }

\* the draws of rand.Intn tried in a run of the pipeline: no exchange at
\* all, and an exchange with position 0 at every step
DrawsTried == { <<3, 2, 1>>, <<0, 0, 0>> }

PermutationsTried == { ShuffledIndices(d[1], d[2], d[3]) : d \in DrawsTried }

\* the new index of the correct answer: the i with indices[i] = correctAnswer,
\* and the zero value of newCorrectAnswer when there is none
NewCorrectAnswer_Forward(indices, correctAnswer) ==
    IF correctAnswer \in 0..3 THEN indices[correctAnswer + 1] ELSE 0

NewCorrectAnswer(indices, correctAnswer) ==
    IF \E i \in 1..4 : indices[i] = correctAnswer
    THEN (CHOOSE i \in 1..4 : indices[i] = correctAnswer) - 1
    ELSE 0

randomizeAnswerOrder_AnyLength(q, indices) ==
    IF Len(q.options) < NumOptions
    THEN q
    ELSE [q EXCEPT !.options = [i \in 1..4 |-> q.options[indices[i] + 1]],
                   !.correctAnswer = NewCorrectAnswer(indices, q.correctAnswer)]

\* randomizeAnswerOrder: nothing is done unless there are exactly four
\* options; else Options and CorrectAnswer are assigned, nothing else
randomizeAnswerOrder(q, indices) ==
    IF Len(q.options) # NumOptions
    THEN q
    ELSE [q EXCEPT !.options = [i \in 1..4 |-> q.options[indices[i] + 1]],
                   !.correctAnswer = NewCorrectAnswer(indices, q.correctAnswer)]

(***************************************************************************)
(* Question Maker                                                          *)
(***************************************************************************)
SystemMessage == [role |-> "system", kind |-> "instruction", n |-> 0]

NewQuestionMaker == <<SystemMessage>>

\* buildPrompt: the full context on the first request, the short request after
buildPrompt(msgs, n) ==
    IF Len(msgs) = 1
    THEN [role |-> "user", kind |-> "full", n |-> n]
    ELSE [role |-> "user", kind |-> "more", n |-> n]

\* the assistant turn and the tool turn appended after a response whose first
\* tool call is submit_questions; parsed is whether its arguments unmarshal
AssistantTurns(items, parsed) ==
    << [role |-> "assistant", kind |-> "toolcall", n |-> Len(items)],
       [role |-> "tool", kind |-> IF parsed THEN "arguments" ELSE "unparsable",
        n |-> Len(items)] >>

PayloadLists == UNION { [1..k -> Payloads] : k \in 0..MaxBatchReturned }

\* the Questions GenerateQuestions builds from the payload: a fresh id each,
\* the request's topic, status tentative, revisionCount 0
MakeQuestions(items, firstId, topic) ==
    [i \in 1..Len(items) |->
        [id |-> firstId + i,
         options |-> items[i].options,
         correctAnswer |-> items[i].correct_answer,
         topic |-> topic,
         status |-> StatusTentative,
         revisionCount |-> 0]]

(***************************************************************************)
(* Question Checker                                                        *)
(***************************************************************************)
AtRevisionLimit_OffByOne(q) == q.revisionCount > RevisionLimit

\* CheckQuestion answers without a Gateway call at the revision limit
AtRevisionLimit(q) == q.revisionCount >= RevisionLimit

RevisedQuestion_SameCount(q, p) ==
    [id |-> q.id,
     options |-> p.options,
     correctAnswer |-> p.correct_answer,
     topic |-> q.topic,
     status |-> StatusRevised,
     revisionCount |-> q.revisionCount]

\* the revised Question built from the revised_question of a revise verdict
RevisedQuestion(q, p) ==
    [id |-> q.id,
     options |-> p.options,
     correctAnswer |-> p.correct_answer,
     topic |-> q.topic,
     status |-> StatusRevised,
     revisionCount |-> q.revisionCount + 1]

NoRevision == [options |-> <<>>, correct_answer |-> 0]

\* no CheckQuestion result yet
NoValidation ==
    [action |-> "", reason |-> <<>>, revised |-> NoQuestion, err |-> "nil"]

\* the result at the revision limit: reject, with the reason
\* "Question rejected after %d revision attempts to prevent infinite loop"
RevisionLimitResult(q) ==
    [action |-> ActionReject,
     reason |-> <<"Question", "rejected", "after", ToString(q.revisionCount), "revision",
                  "attempts", "to", "prevent", "infinite", "loop">>,
     revised |-> NoQuestion,
     err |-> "nil"]

\* the result built from the verdict v of the Checker's LLM on q: its action,
\* its reason (free text) and, for revise with a revised_question, the
\* revised Question
ValidationResult(q, v) ==
    [action |-> v.action,
     reason |-> <<"llm">>,
     revised |-> IF v.action = ActionRevise /\ v.hasRevised
                 THEN RevisedQuestion(q, v.revised)
                 ELSE NoQuestion,
     err |-> "nil"]

\* CheckQuestion returned nil and an error
CheckError == [NoValidation EXCEPT !.err = "error"]

\* the verdicts the Checker's LLM can return: an action and, with revise,
\* possibly a revised_question (one sent with another action is not read)
Verdicts ==
    { [action |-> a, hasRevised |-> FALSE, revised |-> NoRevision] :
         a \in {ActionAccept, ActionReject, ActionRevise} }
    \cup { [action |-> ActionRevise, hasRevised |-> TRUE, revised |-> p] :
             p \in RevisedPayloads }

(***************************************************************************)
(* Gateway                                                                 *)
(***************************************************************************)
\* the errors a call can end with: once ctx is done the call is aborted
ErrorsNow == IF cancelled THEN {"transport"} ELSE GatewayErrors

(***************************************************************************)
(* The generator after NewQuizGenerator                                    *)
(***************************************************************************)
Init ==
    /\ pool = NewQuestionPool
    /\ cache = EmptyMap
    /\ messages = NewQuestionMaker
    /\ logger = "nil"
    /\ loggerMu = "unlocked"
    /\ req = NoRequest
    /\ streamErr = "none"
    /\ pc = "idle"
    /\ acceptedCount = 0
    /\ batchSize = 0
    /\ question = NoQuestion
    /\ deferLogger = FALSE
    /\ chanBuf = <<>>
    /\ chanClosed = FALSE
    /\ cancelled = FALSE
    /\ inflight = <<>>
    /\ runs = 0
    /\ nextId = 0
    /\ makerCalls = 0
    /\ sent = <<>>
    /\ dedupCalls = EmptyMap
    /\ acceptedQuestions = <<>>
    /\ quiz = NoQuiz
    /\ quizErr = "none"
    /\ makerErr = "nil"
    /\ refills = <<>>
    /\ preShuffle = NoQuestion
    /\ validation = NoValidation
    /\ dbStatus = "none"
    /\ dbQuestions = <<>>
    /\ questionNum = 0
    /\ firstQuestionGenerated = FALSE
    /\ dbPc = "none"
    /\ fifo = <<>>
    /\ response = NoResponse
    /\ session = NoSession
    /\ handlers = <<>>
    /\ requestCount = 0
    /\ scoreLog = NoScores

(***************************************************************************)
(* GenerateQuizStream, up to the go statement                              *)
(***************************************************************************)
\* make(chan *Question, n) panics for n < 0
MakeChanPanics(n) == n < 0

\* the error GenerateQuizStream returns for a request
StreamError(topic, n) == "nil"

GenerateQuizStream(topic, n) ==
    /\ pc \in {"idle", "done", "blocked"}
    /\ runs' = runs + 1
    /\ req' = [topic |-> topic, numQuestions |-> n]
    /\ cancelled' = FALSE
    /\ sent' = <<>>
    /\ dedupCalls' = EmptyMap
    /\ question' = NoQuestion
    /\ inflight' = <<>>
    /\ acceptedQuestions' = <<>>
    /\ quiz' = NoQuiz
    /\ quizErr' = "none"
    /\ makerErr' = "nil"
    /\ refills' = <<>>
    /\ preShuffle' = NoQuestion
    /\ validation' = NoValidation
    /\ IF MakeChanPanics(n)
       THEN /\ pc' = "panicked"
            /\ streamErr' = "none"
            /\ UNCHANGED <<logger, loggerMu, deferLogger, chanBuf, chanClosed,
                           acceptedCount, batchSize>>
       ELSE /\ chanBuf' = <<>>
            /\ chanClosed' = FALSE
            /\ IF logger = "nil"
               THEN \E created \in BOOLEAN :
                       /\ logger' = IF created THEN "open" ELSE "nil"
                       /\ loggerMu' = "unlocked"
               ELSE UNCHANGED <<logger, loggerMu>>
            /\ streamErr' = StreamError(topic, n)
            /\ deferLogger' = (logger' # "nil")
            /\ acceptedCount' = 0
            /\ batchSize' = InitialBatchSize
            /\ pc' = "loop"
    /\ UNCHANGED <<pool, cache, messages, nextId, makerCalls,
                   fifo,
                   response,
                   session,
                   handlers,
                   requestCount,
                   scoreLog>>

\* the one run of a fresh generator
StreamFresh ==
    /\ runs = 0
    /\ \E r \in FreshRequests : GenerateQuizStream(r.topic, r.numQuestions)
    /\ UNCHANGED dbVars

\* a run of a generator that may have been used before
StreamReuse ==
    /\ runs < MaxRuns
    /\ \E r \in ReuseRequests : GenerateQuizStream(r.topic, r.numQuestions)
    /\ UNCHANGED dbVars

(***************************************************************************)
(* The orchestrator goroutine of GenerateQuizStream                        *)
(***************************************************************************)
Running == pc \in {"loop", "maker_wait", "get", "check_wait", "dedup",
                   "dedup_wait", "select", "deferred"}

NextBatchSize_NoCeiling(count, size) ==
    IF count = 0 THEN size + BatchSizeStep ELSE size

\* the batch size after the "not making progress" test at the loop's end
NextBatchSize(count, size) ==
    IF count = 0 THEN min(size + BatchSizeStep, BatchSizeCeiling) ELSE size

\* for acceptedCount < req.NumQuestions
LoopCondition_Inclusive(count, n) == count <= n

LoopCondition(count, n) == count < n

\* the loop condition fails: the loop ends, the function returns
LoopExit ==
    /\ pc = "loop"
    /\ ~LoopCondition(acceptedCount, req.numQuestions)
    /\ pc' = "deferred"
    /\ validation' = NoValidation
    /\ UNCHANGED <<pool, cache, messages, logger, loggerMu, req, streamErr,
                   acceptedCount, batchSize, question, deferLogger, chanBuf,
                   chanClosed, cancelled, inflight, runs, nextId, makerCalls,
                   sent, dedupCalls,
                   acceptedQuestions, quiz, quizErr,
                   makerErr, refills, preShuffle,
                   dbStatus, dbQuestions, questionNum, firstQuestionGenerated,
                   dbPc,
                   fifo,
                   response,
                   session,
                   handlers,
                   requestCount,
                   scoreLog>>

\* pool empty: maker.GenerateQuestions appends the user turn and issues the
\* Gateway call
MakerCall ==
    /\ pc = "loop"
    /\ LoopCondition(acceptedCount, req.numQuestions)
    /\ PoolIsEmpty(pool)
    /\ CanLog
    /\ messages' = Append(messages, buildPrompt(messages, batchSize))
    /\ inflight' = Append(inflight, "maker")
    /\ makerCalls' = makerCalls + 1
    /\ refills' = Append(refills, [accepted |-> acceptedCount, size |-> batchSize])
    /\ pc' = "maker_wait"
    /\ validation' = NoValidation
    /\ UNCHANGED <<pool, cache, logger, loggerMu, req, streamErr, acceptedCount,
                   batchSize, question, deferLogger, chanBuf, chanClosed,
                   cancelled, runs, nextId, sent, dedupCalls,
                   acceptedQuestions, quiz, quizErr,
                   makerErr,
                   preShuffle,
                   dbStatus, dbQuestions, questionNum, firstQuestionGenerated,
                   dbPc,
                   fifo,
                   response,
                   session,
                   handlers,
                   requestCount,
                   scoreLog>>

\* the Maker's Gateway call fails: GenerateQuestions returns the error and the
\* goroutine returns.  Unparsable arguments are found after the assistant and
\* tool turns were appended.
MakerFails(e) ==
    /\ pc = "maker_wait"
    /\ e \in ErrorsNow
    /\ makerErr' = "error"
    /\ inflight' = SubSeq(inflight, 1, Len(inflight) - 1)
    /\ messages' = IF e = "parse"
                   THEN messages \o AssistantTurns(<<>>, FALSE)
                   ELSE messages
    /\ pc' = "deferred"
    /\ UNCHANGED <<pool, cache, logger, loggerMu, req, streamErr, acceptedCount,
                   batchSize, question, deferLogger, chanBuf, chanClosed,
                   cancelled, runs, nextId, makerCalls, sent, dedupCalls,
                   acceptedQuestions, quiz, quizErr,
                   refills, preShuffle, validation,
                   dbStatus, dbQuestions, questionNum, firstQuestionGenerated,
                   dbPc,
                   fifo,
                   response,
                   session,
                   handlers,
                   requestCount,
                   scoreLog>>

\* the Maker's Gateway call returns items: they are added to the pool; with
\* an empty list the pool stays empty and the loop's end is reached
MakerResponse(items) ==
    /\ pc = "maker_wait"
    /\ ~cancelled
    /\ makerErr' = "nil"
    /\ inflight' = SubSeq(inflight, 1, Len(inflight) - 1)
    /\ messages' = messages \o AssistantTurns(items, TRUE)
    /\ nextId' = nextId + Len(items)
    /\ pool' = PoolAddAll(pool, MakeQuestions(items, nextId, req.topic))
    /\ IF PoolIsEmpty(pool')
       THEN /\ batchSize' = NextBatchSize(acceptedCount, batchSize)
            /\ pc' = "loop"
       ELSE /\ batchSize' = batchSize
            /\ pc' = "get"
    /\ UNCHANGED <<cache, logger, loggerMu, req, streamErr, acceptedCount,
                   question, deferLogger, chanBuf, chanClosed, cancelled, runs,
                   makerCalls, sent, dedupCalls,
                   acceptedQuestions, quiz, quizErr,
                   refills, preShuffle, validation,
                   dbStatus, dbQuestions, questionNum, firstQuestionGenerated,
                   dbPc,
                   fifo,
                   response,
                   session,
                   handlers,
                   requestCount,
                   scoreLog>>

\* a response of the Maker's LLM within the bounds of the model
MakerReturns(items) ==
    /\ makerCalls <= MaxMakerCalls
    /\ nextId + Len(items) <= MaxIds
    /\ MakerResponse(items)

\* a response of the Maker's LLM whose questions list is empty
MakerReturnsNone ==
    /\ makerCalls <= MaxEmptyBatches
    /\ MakerResponse(<<>>)

MakerFailure == \E e \in GatewayErrors : MakerFails(e)

MakerReturn ==
    \/ \E e \in GatewayErrors : MakerFails(e)
    \/ \E items \in PayloadLists : MakerReturns(items)

\* CheckQuestion returns to the orchestrator only when its Gateway call has
\* returned: the goroutine waits for it
PcCheckIssued_NoWait == "dedup"

PcCheckIssued == "check_wait"

\* pool not empty: pool.Get, then checker.CheckQuestion, which rejects at the
\* revision limit without a Gateway call (the orchestrator then continues) and
\* issues the Gateway call otherwise
Pull ==
    /\ \/ pc = "get"
       \/ /\ pc = "loop"
          /\ LoopCondition(acceptedCount, req.numQuestions)
          /\ ~PoolIsEmpty(pool)
    /\ CanLog
    /\ pool' = PoolGetRest(pool)
    /\ IF AtRevisionLimit(PoolGetQuestion(pool))
       THEN /\ question' = NoQuestion
            /\ validation' = RevisionLimitResult(PoolGetQuestion(pool))
            /\ inflight' = inflight
            /\ pc' = "loop"
       ELSE /\ question' = PoolGetQuestion(pool)
            /\ validation' = NoValidation
            /\ inflight' = Append(inflight, "checker")
            /\ pc' = PcCheckIssued
    /\ UNCHANGED <<cache, messages, logger, loggerMu, req, streamErr,
                   acceptedCount, batchSize, deferLogger, chanBuf, chanClosed,
                   cancelled, runs, nextId, makerCalls, sent, dedupCalls,
                   acceptedQuestions, quiz, quizErr,
                   makerErr, refills, preShuffle,
                   dbStatus, dbQuestions, questionNum, firstQuestionGenerated,
                   dbPc,
                   fifo,
                   response,
                   session,
                   handlers,
                   requestCount,
                   scoreLog>>

\* the Checker's Gateway call fails: the candidate is put back in the pool
CheckFails(e) ==
    /\ pc = "check_wait"
    /\ e \in ErrorsNow
    /\ validation' = CheckError
    /\ inflight' = SubSeq(inflight, 1, Len(inflight) - 1)
    /\ pool' = PoolAdd(pool, question)
    /\ question' = NoQuestion
    /\ pc' = "loop"
    /\ UNCHANGED <<cache, messages, logger, loggerMu, req, streamErr,
                   acceptedCount, batchSize, deferLogger, chanBuf, chanClosed,
                   cancelled, runs, nextId, makerCalls, sent, dedupCalls,
                   acceptedQuestions, quiz, quizErr,
                   makerErr, refills, preShuffle,
                   dbStatus, dbQuestions, questionNum, firstQuestionGenerated,
                   dbPc,
                   fifo,
                   response,
                   session,
                   handlers,
                   requestCount,
                   scoreLog>>

PoolAfterVerdict_Requeue(p, result, q) ==
    IF result.action = ActionRevise /\ result.revised # NoQuestion
    THEN PoolAdd(p, result.revised)
    ELSE PoolAdd(p, q)

\* the pool after a verdict other than accept on q: the revised question is
\* added when the verdict is revise and carries one; else nothing is
PoolAfterVerdict(p, result, q) ==
    IF result.action = ActionRevise /\ result.revised # NoQuestion
    THEN PoolAdd(p, result.revised)
    ELSE p

\* the Checker's Gateway call returns a verdict
CheckReturns(v) ==
    /\ pc = "check_wait"
    /\ ~cancelled
    /\ validation' = ValidationResult(question, v)
    /\ inflight' = SubSeq(inflight, 1, Len(inflight) - 1)
    /\ IF v.action # ActionAccept
       THEN /\ pool' = PoolAfterVerdict(pool, validation', question)
            /\ question' = NoQuestion
            /\ pc' = "loop"
       ELSE /\ pool' = pool
            /\ question' = question
            /\ pc' = "dedup"
    /\ UNCHANGED <<cache, messages, logger, loggerMu, req, streamErr,
                   acceptedCount, batchSize, deferLogger, chanBuf, chanClosed,
                   cancelled, runs, nextId, makerCalls, sent, dedupCalls,
                   acceptedQuestions, quiz, quizErr,
                   makerErr, refills, preShuffle,
                   dbStatus, dbQuestions, questionNum, firstQuestionGenerated,
                   dbPc,
                   fifo,
                   response,
                   session,
                   handlers,
                   requestCount,
                   scoreLog>>

CheckReturn ==
    \/ \E e \in GatewayErrors : CheckFails(e)
    \/ \E v \in Verdicts : CheckReturns(v)

Accepted_KeepsStatus(q, indices) == randomizeAnswerOrder(q, indices)

\* the candidate passed validation and deduplication (it is in the cache, by
\* reference): status accepted, answer order randomized, ready to be sent
Accepted(q, indices) ==
    randomizeAnswerOrder([q EXCEPT !.status = StatusAccepted], indices)

\* the record of a CheckDuplicate call: the ids in the cache when it was made
\* and the outcome it reported
DedupCallRecord(against, isDuplicate) ==
    [against |-> against, isDuplicate |-> isDuplicate]

\* qd.cache[question.ID] = question
CacheAdd_Skip(c, q) == c

CacheAdd_Replace(c, q) == [x \in {q.id} |-> q]

CacheAdd(c, q) == MapPut(c, q.id, q)

\* dedup.CheckDuplicate: with an empty cache the candidate is added and
\* reported non-duplicate without a Gateway call; otherwise the call is issued
DedupCall ==
    /\ pc = "dedup"
    /\ IF DOMAIN cache = {}
       THEN /\ \E indices \in PermutationsTried :
                 /\ question' = Accepted(question, indices)
                 /\ cache' = CacheAdd(cache, question')
            /\ preShuffle' = [question EXCEPT !.status = StatusAccepted]
            /\ dedupCalls' = MapPut(dedupCalls, question.id,
                                    DedupCallRecord(DOMAIN cache, FALSE))
            /\ inflight' = inflight
            /\ pc' = "select"
       ELSE /\ CanLog
            /\ inflight' = Append(inflight, "dedup")
            /\ pc' = "dedup_wait"
            /\ UNCHANGED <<question, cache, dedupCalls, preShuffle>>
    /\ UNCHANGED <<pool, messages, logger, loggerMu, req, streamErr,
                   acceptedCount, batchSize, deferLogger, chanBuf, chanClosed,
                   cancelled, runs, nextId, makerCalls, sent,
                   acceptedQuestions, quiz, quizErr,
                   makerErr, refills,
                   validation,
                   dbStatus, dbQuestions, questionNum, firstQuestionGenerated,
                   dbPc,
                   fifo,
                   response,
                   session,
                   handlers,
                   requestCount,
                   scoreLog>>

\* the Deduper's Gateway call fails: the candidate is put back in the pool
DedupFails(e) ==
    /\ pc = "dedup_wait"
    /\ e \in ErrorsNow
    /\ inflight' = SubSeq(inflight, 1, Len(inflight) - 1)
    /\ pool' = PoolAdd(pool, question)
    /\ question' = NoQuestion
    /\ pc' = "loop"
    /\ UNCHANGED <<cache, messages, logger, loggerMu, req, streamErr,
                   acceptedCount, batchSize, deferLogger, chanBuf, chanClosed,
                   cancelled, runs, nextId, makerCalls, sent, dedupCalls,
                   acceptedQuestions, quiz, quizErr,
                   makerErr, refills, preShuffle, validation,
                   dbStatus, dbQuestions, questionNum, firstQuestionGenerated,
                   dbPc,
                   fifo,
                   response,
                   session,
                   handlers,
                   requestCount,
                   scoreLog>>

\* the Deduper's Gateway call returns is_duplicate
DedupReturns(isDuplicate) ==
    /\ pc = "dedup_wait"
    /\ ~cancelled
    /\ inflight' = SubSeq(inflight, 1, Len(inflight) - 1)
    /\ IF isDuplicate
       THEN /\ question' = NoQuestion
            /\ pc' = "loop"
            /\ cache' = cache
            /\ preShuffle' = preShuffle
       ELSE /\ \E indices \in PermutationsTried :
                 /\ question' = Accepted(question, indices)
                 /\ cache' = CacheAdd(cache, question')
            /\ preShuffle' = [question EXCEPT !.status = StatusAccepted]
            /\ pc' = "select"
    /\ dedupCalls' = MapPut(dedupCalls, question.id,
                            DedupCallRecord(DOMAIN cache, isDuplicate))
    /\ UNCHANGED <<pool, messages, logger, loggerMu, req, streamErr,
                   acceptedCount, batchSize, deferLogger, chanBuf, chanClosed,
                   cancelled, runs, nextId, makerCalls, sent,
                   acceptedQuestions, quiz, quizErr,
                   makerErr, refills,
                   validation,
                   dbStatus, dbQuestions, questionNum, firstQuestionGenerated,
                   dbPc,
                   fifo,
                   response,
                   session,
                   handlers,
                   requestCount,
                   scoreLog>>

DedupReturn ==
    \/ \E e \in GatewayErrors : DedupFails(e)
    \/ \E d \in BOOLEAN : DedupReturns(d)

\* select, case questionChan <- question: possible while the buffer has room
SelectSend ==
    /\ pc = "select"
    /\ Len(chanBuf) < req.numQuestions
    /\ chanBuf' = Append(chanBuf, question)
    /\ sent' = Append(sent, question)
    /\ acceptedCount' = acceptedCount + 1
    /\ batchSize' = NextBatchSize(acceptedCount', batchSize)
    /\ question' = NoQuestion
    /\ pc' = "loop"
    /\ UNCHANGED <<pool, cache, messages, logger, loggerMu, req, streamErr,
                   deferLogger, chanClosed, cancelled, inflight, runs, nextId,
                   makerCalls, dedupCalls,
                   acceptedQuestions, quiz, quizErr,
                   makerErr, refills, preShuffle, validation,
                   dbStatus, dbQuestions, questionNum, firstQuestionGenerated,
                   dbPc,
                   fifo,
                   response,
                   session,
                   handlers,
                   requestCount,
                   scoreLog>>

\* select, case <-ctx.Done(): the goroutine returns
SelectDone ==
    /\ pc = "select"
    /\ cancelled
    /\ question' = NoQuestion
    /\ pc' = "deferred"
    /\ UNCHANGED <<pool, cache, messages, logger, loggerMu, req, streamErr,
                   acceptedCount, batchSize, deferLogger, chanBuf, chanClosed,
                   cancelled, inflight, runs, nextId, makerCalls, sent, dedupCalls,
                   acceptedQuestions, quiz, quizErr,
                   makerErr, refills, preShuffle, validation,
                   dbStatus, dbQuestions, questionNum, firstQuestionGenerated,
                   dbPc,
                   fifo,
                   response,
                   session,
                   handlers,
                   requestCount,
                   scoreLog>>

\* the deferred calls, last deferred first: qg.logger.Close() when a logger
\* was attached, then close(questionChan)
Deferred ==
    /\ pc = "deferred"
    /\ IF deferLogger
       THEN /\ MutexCanLock(loggerMu)
            /\ loggerMu' = LoggerClose(logger).mu
            /\ logger' = LoggerClose(logger).file
            /\ IF LoggerClose(logger).returns
               THEN chanClosed' = TRUE /\ pc' = "done"
               ELSE chanClosed' = chanClosed /\ pc' = "blocked"
       ELSE /\ chanClosed' = TRUE
            /\ pc' = "done"
            /\ UNCHANGED <<logger, loggerMu>>
    /\ UNCHANGED <<pool, cache, messages, req, streamErr, acceptedCount,
                   batchSize, question, deferLogger, chanBuf, cancelled,
                   inflight, runs, nextId, makerCalls, sent, dedupCalls,
                   acceptedQuestions, quiz, quizErr,
                   makerErr, refills, preShuffle, validation,
                   dbStatus, dbQuestions, questionNum, firstQuestionGenerated,
                   dbPc,
                   fifo,
                   response,
                   session,
                   handlers,
                   requestCount,
                   scoreLog>>

Orchestrator ==
    \/ LoopExit
    \/ MakerCall
    \/ MakerReturn
    \/ Pull
    \/ CheckReturn
    \/ DedupCall
    \/ DedupReturn
    \/ SelectSend
    \/ SelectDone
    \/ Deferred

(***************************************************************************)
(* The caller                                                              *)
(***************************************************************************)
\* the caller cancels ctx, or its deadline expires
Cancel ==
    /\ Running
    /\ ~cancelled
    /\ cancelled' = TRUE
    /\ UNCHANGED <<pool, cache, messages, logger, loggerMu, req, streamErr, pc,
                   acceptedCount, batchSize, question, deferLogger, chanBuf,
                   chanClosed, inflight, runs, nextId, makerCalls, sent,
                   dedupCalls,
                   acceptedQuestions, quiz, quizErr,
                   makerErr, refills, preShuffle, validation,
                   dbStatus, dbQuestions, questionNum, firstQuestionGenerated,
                   dbPc,
                   fifo,
                   response,
                   session,
                   handlers,
                   requestCount,
                   scoreLog>>

\* the consumer receives the next item from questionChan
Receive ==
    /\ chanBuf # <<>>
    /\ chanBuf' = Tail(chanBuf)
    /\ acceptedQuestions' = Append(acceptedQuestions, Head(chanBuf))
    /\ UNCHANGED <<pool, cache, messages, logger, loggerMu, req, streamErr, pc,
                   acceptedCount, batchSize, question, deferLogger, chanClosed,
                   cancelled, inflight, runs, nextId, makerCalls, sent,
                   dedupCalls,
                   quiz, quizErr,
                   makerErr, refills, preShuffle, validation,
                   dbStatus, dbQuestions, questionNum, firstQuestionGenerated,
                   dbPc,
                   fifo,
                   response,
                   session,
                   handlers,
                   requestCount,
                   scoreLog>>

\* the Quiz GenerateQuiz builds from the items it collected
NewQuiz(topic, accepted, n) ==
    [topic |-> topic, questions |-> SubSeq(accepted, 1, n), totalQuestions |-> n]

\* acceptedQuestions was made with length 0 and capacity req.NumQuestions:
\* acceptedQuestions[:req.NumQuestions] extends it to its capacity with nil
\* pointers, and questions[i] = *q dereferences them
DereferencesNil(accepted, n) == Len(accepted) < n

\* GenerateQuiz after its range over questionChan has ended (the channel is
\* closed and drained): it builds the Quiz and returns it with a nil error.
\* Its own deferred logger.Close() is not reached on a fresh generator: with
\* a logger attached the goroutine never closes the channel.
GenerateQuizReturn ==
    /\ chanClosed
    /\ chanBuf = <<>>
    /\ quizErr = "none"
    /\ IF DereferencesNil(acceptedQuestions, req.numQuestions)
       THEN /\ quizErr' = "panic"
            /\ quiz' = quiz
       ELSE /\ quizErr' = "nil"
            /\ quiz' = NewQuiz(req.topic, acceptedQuestions, req.numQuestions)
    /\ UNCHANGED <<pool, cache, messages, logger, loggerMu, req, streamErr, pc,
                   acceptedCount, batchSize, question, deferLogger, chanBuf,
                   chanClosed, cancelled, inflight, runs, nextId, makerCalls,
                   sent, dedupCalls, acceptedQuestions,
                   makerErr, refills, preShuffle, validation,
                   dbStatus, dbQuestions, questionNum, firstQuestionGenerated,
                   dbPc,
                   fifo,
                   response,
                   session,
                   handlers,
                   requestCount,
                   scoreLog>>

\* one run on a fresh generator
Next ==
    \/ StreamFresh
    \/ Orchestrator
    \/ Cancel
    \/ Receive
    \/ GenerateQuizReturn

Spec == Init /\ [][Next]_vars

\* the Go scheduler runs the goroutine whenever it can take a step, and a
\* Gateway call returns or fails
FairSpec == Spec /\ WF_vars(Orchestrator)

\* GenerateQuiz as the consumer: its range loop takes every item the channel
\* holds and goes on when the channel is closed
FairCollectSpec ==
    /\ Spec
    /\ WF_vars(Orchestrator)
    /\ WF_vars(Receive)
    /\ WF_vars(GenerateQuizReturn)

\* one run on a fresh generator for which NewLLMLogger fails (the log
\* directory or file cannot be created): no transcript logger is attached
StreamNoLogger == StreamFresh /\ logger' = "nil"

NoLoggerNext ==
    \/ StreamNoLogger
    \/ Orchestrator
    \/ Cancel
    \/ Receive
    \/ GenerateQuizReturn

FairNoLoggerSpec == Init /\ [][NoLoggerNext]_vars /\ WF_vars(Orchestrator)

\* a run without a logger in which every Gateway call of the Deduper fails
\* (the Checker's may succeed)
DedupFailure == \E e \in GatewayErrors : DedupFails(e)

OrchestratorDedupDown ==
    \/ LoopExit
    \/ MakerCall
    \/ MakerReturn
    \/ Pull
    \/ CheckReturn
    \/ DedupCall
    \/ DedupFailure
    \/ SelectSend
    \/ SelectDone
    \/ Deferred

DedupDownNext ==
    \/ StreamNoLogger
    \/ OrchestratorDedupDown
    \/ Cancel
    \/ Receive
    \/ GenerateQuizReturn

FairDedupDownSpec ==
    Init /\ [][DedupDownNext]_vars /\ WF_vars(OrchestratorDedupDown)

\* a run in which the Maker's LLM produces no candidate: every response has
\* an empty questions list
OrchestratorNoCandidates ==
    \/ LoopExit
    \/ MakerCall
    \/ MakerFailure
    \/ MakerReturnsNone
    \/ Deferred

EmptyBatchNext ==
    \/ StreamFresh
    \/ OrchestratorNoCandidates
    \/ Cancel
    \/ GenerateQuizReturn

EmptyBatchSpec == Init /\ [][EmptyBatchNext]_vars

\* a run in which the Maker's LLM may also answer several calls in a row with
\* an empty questions list
RefillNext ==
    \/ Next
    \/ MakerReturnsNone

RefillSpec == Init /\ [][RefillNext]_vars

\* a run in which the Checker's LLM answers every judgement with revise and
\* a revised question, no Gateway call fails in the Checker and the context
\* stays live
CheckRevises ==
    \E p \in RevisedPayloads :
        CheckReturns([action |-> ActionRevise, hasRevised |-> TRUE, revised |-> p])

OrchestratorReviseOnly ==
    \/ LoopExit
    \/ MakerCall
    \/ MakerReturn
    \/ Pull
    \/ CheckRevises
    \/ Deferred

ReviseOnlyNext ==
    \/ StreamFresh
    \/ OrchestratorReviseOnly

FairReviseOnlySpec ==
    Init /\ [][ReviseOnlyNext]_vars /\ WF_vars(OrchestratorReviseOnly)

\* the pool on its own, driven by any sequence of Add and Get calls.  A
\* question is added when no question with its id is in the pool (the ids of
\* a batch are fresh, and a candidate is put back only after Get removed it),
\* with any status and revisionCount.
PoolItems ==
    { [id |-> i, options |-> <<"a", "b", "c", "d">>, correctAnswer |-> 0,
       topic |-> "t1", status |-> st, revisionCount |-> r] :
        i \in 1..MaxPoolIds, st \in {StatusTentative, StatusRevised},
        r \in 0..1 }

PoolAddCall(q) ==
    /\ pc \in {"idle", "added", "got"}
    /\ q.id \notin DOMAIN pool.questions
    /\ PoolSize(pool) < MaxPoolSize
    /\ pool' = PoolAdd(pool, q)
    /\ fifo' = Append(fifo, [q EXCEPT !.status = StatusTentative])
    /\ question' = NoQuestion
    /\ pc' = "added"
    /\ UNCHANGED <<cache, messages, logger, loggerMu, req, streamErr,
                   acceptedCount, batchSize, deferLogger, chanBuf, chanClosed,
                   cancelled, inflight, runs, nextId, makerCalls, sent,
                   dedupCalls, acceptedQuestions, quiz, quizErr, makerErr,
                   refills, preShuffle, validation, dbVars,
                   response,
                   session,
                   handlers,
                   requestCount,
                   scoreLog>>

PoolAddAny == \E q \in PoolItems : PoolAddCall(q)

PoolGetCall ==
    /\ pc \in {"idle", "added", "got"}
    /\ question' = PoolGet(pool).question
    /\ pool' = PoolGet(pool).pool
    /\ fifo' = IF fifo = <<>> THEN fifo ELSE Tail(fifo)
    /\ pc' = "got"
    /\ UNCHANGED <<cache, messages, logger, loggerMu, req, streamErr,
                   acceptedCount, batchSize, deferLogger, chanBuf, chanClosed,
                   cancelled, inflight, runs, nextId, makerCalls, sent,
                   dedupCalls, acceptedQuestions, quiz, quizErr, makerErr,
                   refills, preShuffle, validation, dbVars,
                   response,
                   session,
                   handlers,
                   requestCount,
                   scoreLog>>

PoolNext ==
    \/ PoolAddAny
    \/ PoolGetCall

PoolSpec == Init /\ [][PoolNext]_vars

\* randomizeAnswerOrder on its own: every question with four options (all
\* different, or two alike), or with three or five options, and a correct
\* answer in 0..3, under every permutation the Fisher-Yates loop can draw.
\* The questions carry their Text and Explanation here.
OptionLists ==
    { <<"a", "b", "c", "d">>, <<"a", "a", "b", "c">>,
      <<"a", "b", "c">>, <<"a", "b", "c", "d", "e">> }

ShuffleInputs ==
    { [id |-> 1, text |-> "text", options |-> o, correctAnswer |-> c,
       explanation |-> "explanation", topic |-> "t1",
       status |-> StatusAccepted, revisionCount |-> r] :
        o \in OptionLists, c \in 0..3, r \in 0..1 }

ShuffleInit ==
    /\ question \in ShuffleInputs
    /\ preShuffle = question
    /\ pc = "shuffle"
    /\ pool = NewQuestionPool
    /\ cache = EmptyMap
    /\ messages = NewQuestionMaker
    /\ logger = "nil"
    /\ loggerMu = "unlocked"
    /\ req = NoRequest
    /\ streamErr = "none"
    /\ acceptedCount = 0
    /\ batchSize = 0
    /\ deferLogger = FALSE
    /\ chanBuf = <<>>
    /\ chanClosed = FALSE
    /\ cancelled = FALSE
    /\ inflight = <<>>
    /\ runs = 0
    /\ nextId = 0
    /\ makerCalls = 0
    /\ sent = <<>>
    /\ dedupCalls = EmptyMap
    /\ acceptedQuestions = <<>>
    /\ quiz = NoQuiz
    /\ quizErr = "none"
    /\ makerErr = "nil"
    /\ refills = <<>>
    /\ validation = NoValidation
    /\ dbStatus = "none"
    /\ dbQuestions = <<>>
    /\ questionNum = 0
    /\ firstQuestionGenerated = FALSE
    /\ dbPc = "none"
    /\ fifo = <<>>
    /\ response = NoResponse
    /\ session = NoSession
    /\ handlers = <<>>
    /\ requestCount = 0
    /\ scoreLog = NoScores

\* one call of qg.randomizeAnswerOrder(question)
Shuffle ==
    /\ pc = "shuffle"
    /\ \E indices \in Permutations4 :
          question' = randomizeAnswerOrder(question, indices)
    /\ pc' = "select"
    /\ UNCHANGED <<pool, cache, messages, logger, loggerMu, req, streamErr,
                   acceptedCount, batchSize, deferLogger, chanBuf, chanClosed,
                   cancelled, inflight, runs, nextId, makerCalls, sent,
                   dedupCalls, acceptedQuestions, quiz, quizErr, makerErr,
                   refills, preShuffle, validation,
                   dbStatus, dbQuestions, questionNum, firstQuestionGenerated,
                   dbPc,
                   fifo,
                   response,
                   session,
                   handlers,
                   requestCount,
                   scoreLog>>

ShuffleSpec == ShuffleInit /\ [][Shuffle]_vars

(***************************************************************************)
(* DB.GenerateQuiz: a run whose items are stored as they arrive.  The      *)
(* server inserts the quiz row with status generating and starts           *)
(* DB.GenerateQuiz; a page reads the row at any time.                      *)
(***************************************************************************)
\* the row CreateQuestion inserts for the item q
DBQuestion(q, num) ==
    [id |-> q.id, questionNum |-> num, options |-> q.options,
     correctAnswer |-> q.correctAnswer]

StatusAfterStore_Late(first, status) == IF first THEN "ready" ELSE status

\* the status of the quiz row after a question was stored: ready once the
\* first one is (firstQuestionGenerated is false until then)
StatusAfterStore(first, status) == IF ~first THEN "ready" ELSE status

NextQuestionNum_Always(num, stored) == num + 1

\* questionNum after an item was taken from the channel: a failed insert
\* leaves the loop body with continue
NextQuestionNum(num, stored) == IF stored THEN num + 1 ELSE num

\* the requests tried with the store: one topic with every count
DBRequests ==
    { [topic |-> "t1", numQuestions |-> n] : n \in NumQuestionsRange }

\* DB.GenerateQuiz up to its range loop: a new QuizGenerator, the logger
\* (NewLLMLogger fails here exactly when it fails in GenerateQuizStream: both
\* create a file in the directory log), and GenerateQuizStream
DBGenerateQuiz ==
    /\ runs = 0
    /\ \E r \in DBRequests : GenerateQuizStream(r.topic, r.numQuestions)
    /\ dbStatus' = "generating"
    /\ dbQuestions' = <<>>
    /\ firstQuestionGenerated' = FALSE
    /\ IF pc' = "panicked"
       THEN questionNum' = 0 /\ dbPc' = "panicked"
       ELSE questionNum' = 1 /\ dbPc' = "range"

\* one iteration of the range loop: the next item is taken from the channel
\* and inserted, which succeeds or fails (OptionsToJSON marshals a []string
\* and cannot fail).  UpdateQuizStatus updates the one row the server has
\* inserted; it is taken to succeed, as the code goes on as if it had.
DBStoreQuestion(stored) ==
    /\ dbPc = "range"
    /\ chanBuf # <<>>
    /\ chanBuf' = Tail(chanBuf)
    /\ questionNum' = NextQuestionNum(questionNum, stored)
    /\ IF stored
       THEN /\ dbQuestions' = Append(dbQuestions, DBQuestion(Head(chanBuf), questionNum))
            /\ dbStatus' = StatusAfterStore(firstQuestionGenerated, dbStatus)
            /\ firstQuestionGenerated' = TRUE
            /\ dbPc' = IF questionNum' > req.numQuestions THEN "after" ELSE "range"
       ELSE UNCHANGED <<dbQuestions, dbStatus, firstQuestionGenerated, dbPc>>
    /\ UNCHANGED <<pool, cache, messages, logger, loggerMu, req, streamErr, pc,
                   acceptedCount, batchSize, question, deferLogger, chanClosed,
                   cancelled, inflight, runs, nextId, makerCalls, sent,
                   dedupCalls, acceptedQuestions, quiz, quizErr, makerErr,
                   refills, preShuffle, validation,
                   fifo,
                   response,
                   session,
                   handlers,
                   requestCount,
                   scoreLog>>

DBStore == \E stored \in BOOLEAN : DBStoreQuestion(stored)

\* the loop has ended, by break or because the channel is closed and
\* drained: the status is set to completed, and the deferred calls run,
\* cancel() and then logger.Close() when a logger was created
DBComplete ==
    /\ \/ dbPc = "after"
       \/ dbPc = "range" /\ chanClosed /\ chanBuf = <<>>
    /\ dbStatus' = "completed"
    /\ cancelled' = TRUE
    /\ IF logger = "nil"
       THEN /\ dbPc' = "returned"
            /\ UNCHANGED <<logger, loggerMu>>
       ELSE IF MutexCanLock(loggerMu)
            THEN /\ loggerMu' = LoggerClose(logger).mu
                 /\ logger' = LoggerClose(logger).file
                 /\ dbPc' = IF LoggerClose(logger).returns
                            THEN "returned" ELSE "blocked"
            ELSE /\ dbPc' = "blocked"
                 /\ UNCHANGED <<logger, loggerMu>>
    /\ UNCHANGED <<pool, cache, messages, req, streamErr, pc, acceptedCount,
                   batchSize, question, deferLogger, chanBuf, chanClosed,
                   inflight, runs, nextId, makerCalls, sent, dedupCalls,
                   acceptedQuestions, quiz, quizErr, makerErr, refills,
                   preShuffle, validation, dbQuestions, questionNum,
                   firstQuestionGenerated,
                   fifo,
                   response,
                   session,
                   handlers,
                   requestCount,
                   scoreLog>>

\* DB.GenerateQuiz sees the items sent and the closing of the channel, not
\* how a candidate became an item: in the runs that feed the store the
\* Maker's LLM returns well-formed questions and the Checker's LLM accepts or
\* rejects; every call may fail
MakerReturnsPlain ==
    \E k \in 0..MaxBatchReturned :
        MakerReturns([i \in 1..k |->
                        [options |-> <<"a", "b", "c", "d">>, correct_answer |-> 1]])

CheckFailure == \E e \in GatewayErrors : CheckFails(e)

CheckDecides ==
    \E a \in {ActionAccept, ActionReject} :
        CheckReturns([action |-> a, hasRevised |-> FALSE, revised |-> NoRevision])

OrchestratorDB ==
    \/ LoopExit
    \/ MakerCall
    \/ MakerFailure
    \/ MakerReturnsPlain
    \/ Pull
    \/ CheckFailure
    \/ CheckDecides
    \/ DedupCall
    \/ DedupReturn
    \/ SelectSend
    \/ SelectDone
    \/ Deferred

\* one quiz generated into the store; Cancel is the ten-minute deadline
DBNext ==
    \/ DBGenerateQuiz
    \/ OrchestratorDB
    \/ Cancel
    \/ DBStore
    \/ DBComplete

DBSpec == Init /\ [][DBNext]_vars

\* DB.GenerateQuiz runs in a goroutine of its own: the scheduler runs it
\* whenever it can take a step
FairDBSpec ==
    /\ DBSpec
    /\ WF_vars(OrchestratorDB)
    /\ WF_vars(DBStore)
    /\ WF_vars(DBComplete)

\* successive runs on one generator
ReuseNext ==
    \/ StreamReuse
    \/ Orchestrator
    \/ Cancel
    \/ Receive
    \/ GenerateQuizReturn

ReuseSpec == Init /\ [][ReuseNext]_vars

\* successive runs on one generator whose Maker's LLM may also answer with an
\* empty questions list
ReuseRefillNext ==
    \/ ReuseNext
    \/ MakerReturnsNone

ReuseRefillSpec == Init /\ [][ReuseRefillNext]_vars

(***************************************************************************)
(* The Gateway's responses, as the three stages read them                  *)
(***************************************************************************)
ToolNames == {"submit_questions", "evaluate_question", "check_duplicate"}

\* the tool a stage forces with ToolChoice
ForcedTool(stage) ==
    CASE stage = "maker" -> "submit_questions"
      [] stage = "checker" -> "evaluate_question"
      [] stage = "dedup" -> "check_duplicate"

\* the tool calls of the first choice of a response: their names, in order
ToolCallLists ==
    {<<>>} \cup { <<a>> : a \in ToolNames }
           \cup { <<a, b>> : a \in ToolNames, b \in ToolNames }

\* what CreateChatCompletion can return: an error, or a response with zero or
\* one choice, whose message has the tool calls listed; parses is whether the
\* arguments of the first tool call unmarshal
GatewayResponses ==
    { [received |-> TRUE, err |-> TRUE, choices |-> 0, toolCalls |-> <<>>,
       parses |-> FALSE],
      [received |-> TRUE, err |-> FALSE, choices |-> 0, toolCalls |-> <<>>,
       parses |-> FALSE],
      [received |-> TRUE, err |-> FALSE, choices |-> 1, toolCalls |-> <<>>,
       parses |-> FALSE] }
    \cup { [received |-> TRUE, err |-> FALSE, choices |-> 1, toolCalls |-> t,
            parses |-> p] : t \in ToolCallLists \ {<<>>}, p \in BOOLEAN }

StageError_AnyName(resp, forced) ==
    IF resp.err THEN "transport"
    ELSE IF resp.choices = 0 THEN "nochoices"
    ELSE IF Len(resp.toolCalls) = 0 THEN "notoolcalls"
    ELSE IF ~resp.parses THEN "parse"
    ELSE "nil"

\* the tests each stage makes on what CreateChatCompletion returned, in the
\* order of the code: err, len(resp.Choices), len(ToolCalls), the name of
\* ToolCalls[0], json.Unmarshal of its arguments; "nil" when all pass
StageError(resp, forced) ==
    IF resp.err THEN "transport"
    ELSE IF resp.choices = 0 THEN "nochoices"
    ELSE IF Len(resp.toolCalls) = 0 THEN "notoolcalls"
    ELSE IF resp.toolCalls[1] # forced THEN "wrongname"
    ELSE IF ~resp.parses THEN "parse"
    ELSE "nil"

\* the stage whose Gateway call the goroutine is waiting for
WaitingStage ==
    CASE pc = "maker_wait" -> "maker"
      [] pc = "check_wait" -> "checker"
      [] pc = "dedup_wait" -> "dedup"
      [] OTHER -> "none"

\* CreateChatCompletion returns to the stage that called it (a Maker call
\* beyond the bound of the model returns nothing the Maker can use)
GatewayReturns(resp) ==
    /\ WaitingStage # "none"
    /\ ~response.received
    /\ (pc = "maker_wait" /\ makerCalls > MaxMakerCalls) =>
           StageError(resp, ForcedTool("maker")) # "nil"
    /\ response' = resp
    /\ UNCHANGED <<pool, cache, messages, logger, loggerMu, req, streamErr, pc,
                   acceptedCount, batchSize, question, deferLogger, chanBuf,
                   chanClosed, cancelled, inflight, runs, nextId, makerCalls,
                   sent, dedupCalls, acceptedQuestions, quiz, quizErr,
                   makerErr, refills, preShuffle, validation, dbStatus,
                   dbQuestions, questionNum, firstQuestionGenerated, dbPc,
                   fifo,
                   session,
                   handlers,
                   requestCount,
                   scoreLog>>

GatewayReturn == \E resp \in GatewayResponses : GatewayReturns(resp)

\* GenerateQuestions from the return of CreateChatCompletion on; the
\* arguments that parse hold well-formed questions
MakerHandles ==
    /\ pc = "maker_wait"
    /\ response.received
    /\ LET e == StageError(response, ForcedTool("maker"))
       IN  IF e # "nil"
           THEN MakerFails(e)
           ELSE \E k \in 0..MaxBatchReturned :
                   /\ nextId + k <= MaxIds
                   /\ MakerResponse([i \in 1..k |->
                         [options |-> <<"a", "b", "c", "d">>, correct_answer |-> 1]])

\* CheckQuestion from the return of CreateChatCompletion on; the arguments
\* that parse hold accept or reject
CheckHandles ==
    /\ pc = "check_wait"
    /\ response.received
    /\ LET e == StageError(response, ForcedTool("checker"))
       IN  IF e # "nil"
           THEN CheckFails(e)
           ELSE \E a \in {ActionAccept, ActionReject} :
                   CheckReturns([action |-> a, hasRevised |-> FALSE,
                                 revised |-> NoRevision])

\* CheckDuplicate from the return of CreateChatCompletion on
DedupHandles ==
    /\ pc = "dedup_wait"
    /\ response.received
    /\ LET e == StageError(response, ForcedTool("dedup"))
       IN  IF e # "nil"
           THEN DedupFails(e)
           ELSE \E d \in BOOLEAN : DedupReturns(d)

\* the stage has returned to the orchestrator: its resp is gone
ResponseDropped ==
    /\ response.received
    /\ WaitingStage = "none"
    /\ response' = NoResponse
    /\ UNCHANGED <<pool, cache, messages, logger, loggerMu, req, streamErr, pc,
                   acceptedCount, batchSize, question, deferLogger, chanBuf,
                   chanClosed, cancelled, inflight, runs, nextId, makerCalls,
                   sent, dedupCalls, acceptedQuestions, quiz, quizErr,
                   makerErr, refills, preShuffle, validation, dbStatus,
                   dbQuestions, questionNum, firstQuestionGenerated, dbPc,
                   fifo,
                   session,
                   handlers,
                   requestCount,
                   scoreLog>>

\* a stage is called after the last one has returned
MakerCallNext == ~response.received /\ MakerCall

PullNext == ~response.received /\ Pull

DedupCallNext == ~response.received /\ DedupCall

\* the orchestrator with the responses spelled out
OrchestratorGateway ==
    \/ LoopExit
    \/ MakerCallNext
    \/ MakerHandles
    \/ PullNext
    \/ CheckHandles
    \/ DedupCallNext
    \/ DedupHandles
    \/ SelectSend
    \/ Deferred

\* one run on a fresh generator whose context is not cancelled
GatewayNext ==
    \/ StreamFresh
    \/ OrchestratorGateway
    \/ GatewayReturn
    \/ ResponseDropped

GatewaySpec == Init /\ [][GatewayNext]_vars

(***************************************************************************)
(* The multiplayer session of the web server                               *)
(*                                                                         *)
(* One session over a completed quiz of the store.  Every request is       *)
(* served by its own goroutine; what a handler does while it holds         *)
(* session.mu is one step, and handlers interleave between their steps.    *)
(* Player ids are drawn fresh: the host's is 1, the next player's 2, ...   *)
(***************************************************************************)
\* the completed quiz the session is played over: StoredQuestions rows, the
\* correct answer of each is option 0
StoredQuiz ==
    [n \in 1..StoredQuestions |->
        DBQuestion([id |-> n, options |-> <<"a", "b", "c", "d">>,
                    correctAnswer |-> 0], n)]

\* the names players give, the host's first
PlayerNames == {"host", "ann", "bob"}

\* the answers submitted: the correct option and a wrong one
AnswersTried == {0, 1}

\* the server with a completed quiz in the store and no session
MultiplayerInit ==
    /\ pool = NewQuestionPool
    /\ cache = EmptyMap
    /\ messages = NewQuestionMaker
    /\ logger = "nil"
    /\ loggerMu = "unlocked"
    /\ req = NoRequest
    /\ streamErr = "none"
    /\ pc = "idle"
    /\ acceptedCount = 0
    /\ batchSize = 0
    /\ question = NoQuestion
    /\ deferLogger = FALSE
    /\ chanBuf = <<>>
    /\ chanClosed = FALSE
    /\ cancelled = FALSE
    /\ inflight = <<>>
    /\ runs = 0
    /\ nextId = 0
    /\ makerCalls = 0
    /\ sent = <<>>
    /\ dedupCalls = EmptyMap
    /\ acceptedQuestions = <<>>
    /\ quiz = NoQuiz
    /\ quizErr = "none"
    /\ makerErr = "nil"
    /\ refills = <<>>
    /\ preShuffle = NoQuestion
    /\ validation = NoValidation
    /\ dbStatus = "completed"
    /\ dbQuestions = StoredQuiz
    /\ questionNum = 0
    /\ firstQuestionGenerated = FALSE
    /\ dbPc = "none"
    /\ fifo = <<>>
    /\ response = NoResponse
    /\ session = NoSession
    /\ handlers = <<>>
    /\ requestCount = 0
    /\ scoreLog = NoScores

\* a player as handleNewMultiplayer and handleJoinSession make it
NewPlayer(id, name) == [ID |-> id, Name |-> name, Score |-> 0]

PlayerIDs(s) == { s.Players[i].ID : i \in 1..Len(s.Players) }

\* the sequence s without its element at position i
RemoveAt(s, i) == SubSeq(s, 1, i - 1) \o SubSeq(s, i + 1, Len(s))

\* handleNewMultiplayer, POST: the quiz must be completed; the session is
\* created waiting, at question 1, with the host as its first player
handleNewMultiplayer ==
    /\ session = NoSession
    /\ dbStatus = "completed"
    /\ session' = [Status |-> "waiting",
                   CurrentQ |-> 1,
                   Players |-> <<NewPlayer(1, "host")>>,
                   Answers |-> NoScores]
    /\ UNCHANGED <<generatorVars, dbStatus, dbQuestions, handlers,
                   requestCount, scoreLog>>

\* handleJoinSession up to its test of session.Status, which it reads
\* without holding session.mu: a session that is not waiting is refused
JoinReadsStatus(name) ==
    /\ session # NoSession
    /\ requestCount < MaxRequests
    /\ requestCount' = requestCount + 1
    /\ handlers' = IF session.Status # "waiting"
                   THEN handlers
                   ELSE Append(handlers,
                               [kind |-> "join", pc |-> "add", playerName |-> name,
                                playerID |-> 0, questionNum |-> 0, answer |-> 0])
    /\ UNCHANGED <<generatorVars, dbStatus, dbQuestions, session, scoreLog>>

\* handleJoinSession from session.mu.Lock() on: a name already taken is
\* refused, else the player is appended
JoinAddsPlayer(i) ==
    /\ i \in 1..Len(handlers)
    /\ handlers[i].kind = "join"
    /\ handlers[i].pc = "add"
    /\ session' =
         IF \E j \in 1..Len(session.Players) :
                session.Players[j].Name = handlers[i].playerName
         THEN session
         ELSE [session EXCEPT !.Players =
                  Append(@, NewPlayer(Len(session.Players) + 1,
                                      handlers[i].playerName))]
    /\ handlers' = RemoveAt(handlers, i)
    /\ UNCHANGED <<generatorVars, dbStatus, dbQuestions, requestCount, scoreLog>>

\* handleStartGame: under session.mu, a session that is not waiting is
\* refused; else it is playing, at question 1
handleStartGame ==
    /\ session # NoSession
    /\ requestCount < MaxRequests
    /\ requestCount' = requestCount + 1
    /\ session' = IF session.Status # "waiting"
                  THEN session
                  ELSE [session EXCEPT !.Status = "playing", !.CurrentQ = 1]
    /\ UNCHANGED <<generatorVars, dbStatus, dbQuestions, handlers, scoreLog>>

\* session.Answers[questionNum][playerID] = answer, the inner map made when
\* it is nil
RecordAnswer(answers, num, id, answer) ==
    MapPut(answers, num,
           MapPut(IF num \in DOMAIN answers THEN answers[num] ELSE NoScores,
                  id, answer))

\* handleSubmitAnswer up to session.mu.Unlock(): the answer is recorded
\* under the question number and the player id of the form
SubmitRecordsAnswer(id, num, answer) ==
    /\ session # NoSession
    /\ requestCount < MaxRequests
    /\ requestCount' = requestCount + 1
    /\ session' = [session EXCEPT !.Answers = RecordAnswer(@, num, id, answer)]
    /\ handlers' = Append(handlers,
                          [kind |-> "answer", pc |-> "check", playerName |-> "",
                           playerID |-> id, questionNum |-> num,
                           answer |-> answer])
    /\ UNCHANGED <<generatorVars, dbStatus, dbQuestions, scoreLog>>

\* checkAllPlayersAnswered
checkAllPlayersAnswered(s, num) ==
    IF num \notin DOMAIN s.Answers
    THEN FALSE
    ELSE Cardinality(DOMAIN s.Answers[num]) = Len(s.Players)

\* handleSubmitAnswer calls checkAllPlayersAnswered: it goes on to
\* moveToNextQuestion when all have answered and returns otherwise
SubmitChecksAnswered(i) ==
    /\ i \in 1..Len(handlers)
    /\ handlers[i].kind = "answer"
    /\ handlers[i].pc = "check"
    /\ handlers' = IF checkAllPlayersAnswered(session, handlers[i].questionNum)
                   THEN [handlers EXCEPT ![i].pc = "move"]
                   ELSE RemoveAt(handlers, i)
    /\ UNCHANGED <<generatorVars, dbStatus, dbQuestions, session, requestCount,
                   scoreLog>>

\* whether the player at position j answered question num correctly
AnsweredCorrectly(s, num, j, correct) ==
    /\ num \in DOMAIN s.Answers
    /\ s.Players[j].ID \in DOMAIN s.Answers[num]
    /\ s.Answers[num][s.Players[j].ID] = correct

\* updateScores: the score of every player whose recorded answer to the
\* question is the correct one is incremented
updateScores(s, num, correct) ==
    [s EXCEPT !.Players =
        [j \in 1..Len(s.Players) |->
            IF AnsweredCorrectly(s, num, j, correct)
            THEN [s.Players[j] EXCEPT !.Score = @ + 1]
            ELSE s.Players[j]]]

\* the increments updateScores makes, added to the log
LogScores(log, s, num, correct) ==
    LET scored == { <<s.Players[j].ID, num>> :
                      j \in { k \in 1..Len(s.Players) :
                                AnsweredCorrectly(s, num, k, correct) } }
    IN  [k \in DOMAIN log \cup scored |->
            (IF k \in DOMAIN log THEN log[k] ELSE 0)
            + (IF k \in scored THEN 1 ELSE 0)]

\* the end of moveToNextQuestion: completed after the last question, else
\* CurrentQ is the question after the one answered
AfterQuestion(s, num, total) ==
    IF num >= total
    THEN [s EXCEPT !.Status = "completed"]
    ELSE [s EXCEPT !.CurrentQ = num + 1]

\* moveToNextQuestion: the number of questions is read from the store (the
\* function returns if that fails); under session.mu the scores are updated
\* (not when the question cannot be read) and the session moves on
SubmitMoves(i, countRead, questionRead) ==
    /\ i \in 1..Len(handlers)
    /\ handlers[i].kind = "answer"
    /\ handlers[i].pc = "move"
    /\ LET num == handlers[i].questionNum
           found == questionRead /\ num \in 1..Len(dbQuestions)
           correct == IF found THEN dbQuestions[num].correctAnswer ELSE 0
           scored == IF found THEN updateScores(session, num, correct)
                     ELSE session
       IN  IF countRead
           THEN /\ session' = AfterQuestion(scored, num, Len(dbQuestions))
                /\ scoreLog' = IF found
                               THEN LogScores(scoreLog, session, num, correct)
                               ELSE scoreLog
           ELSE UNCHANGED <<session, scoreLog>>
    /\ handlers' = RemoveAt(handlers, i)
    /\ UNCHANGED <<generatorVars, dbStatus, dbQuestions, requestCount>>

\* the join requests being handled
Joining == { i \in 1..Len(handlers) : handlers[i].kind = "join" }

handleJoinSession ==
    \/ \E name \in PlayerNames :
          /\ Len(session.Players) + Cardinality(Joining) < MaxJoined
          /\ JoinReadsStatus(name)
    \/ \E i \in 1..Len(handlers) : JoinAddsPlayer(i)

handleSubmitAnswer ==
    \/ \E id \in PlayerIDs(session), num \in 1..StoredQuestions,
          answer \in AnswersTried : SubmitRecordsAnswer(id, num, answer)
    \/ \E i \in 1..Len(handlers) : SubmitChecksAnswered(i)
    \/ \E i \in 1..Len(handlers), countRead \in BOOLEAN, questionRead \in BOOLEAN :
          SubmitMoves(i, countRead, questionRead)

MultiplayerNext ==
    \/ handleNewMultiplayer
    \/ handleJoinSession
    \/ handleStartGame
    \/ handleSubmitAnswer

MultiplayerSpec == MultiplayerInit /\ [][MultiplayerNext]_vars

(***************************************************************************)
(* Properties of a run                                                     *)
(***************************************************************************)
\* a run exists: GenerateQuizStream was called and made its channel
RunStarted == pc \notin {"idle", "panicked"}

\* the candidates of the run: in the pool, under judgement, or sent
Candidates ==
    { pool.questions[id] : id \in DOMAIN pool.questions }
    \cup (IF question = NoQuestion THEN {} ELSE {question})
    \cup { sent[i] : i \in 1..Len(sent) }

\* the target of the run has been reached
TargetReached ==
    /\ pc \in {"loop", "deferred"}
    /\ acceptedCount = req.numQuestions

\* C1: once the run has emitted numQuestions items, the goroutine finishes its
\* deferred clean-up (closing the attached transcript logger) and closes the
\* outbound channel.
C1_TargetReachedCloses == TargetReached ~> chanClosed

\* C2: after the caller cancels the context during a run, the orchestrator
\* eventually closes the outbound channel, whatever the pool holds and
\* whichever stage the run is in.
C2_CancelCloses == (Running /\ cancelled) ~> chanClosed

\* C3: in every state of a run the number of items sent on the outbound
\* channel is at most request.numQuestions (so no item is sent once the
\* emitted count has reached numQuestions), and acceptedCount counts them.
C3_SentAtMostTarget ==
    RunStarted => Len(sent) <= req.numQuestions /\ acceptedCount = Len(sent)

C3_Witness == req.numQuestions = 2 /\ Len(sent) = 2 /\ chanBuf = <<>>

\* C4: every question emitted on the outbound channel has exactly four
\* options and a correctAnswer in 0..3, whatever payloads the LLM returned.
C4_EmittedWellFormed ==
    \A i \in 1..Len(sent) :
        Len(sent[i].options) = 4 /\ sent[i].correctAnswer \in 0..3

\* C5: every question emitted on the outbound channel carries status accepted
\* at the moment it is sent.
C5_EmittedAccepted ==
    \A i \in 1..Len(sent) : sent[i].status = StatusAccepted

\* an item was sent that had been revised (status revised) and re-enqueued
\* (status tentative) before
C5_Witness ==
    \E i \in 1..Len(sent) : sent[i].revisionCount >= 1

\* C6: every question in the pool, under judgement or emitted has
\* 0 <= revisionCount <= 3: a question at the limit is never revised again
\* and re-enqueued.
C6_RevisionCountBounded ==
    \A q \in Candidates : q.revisionCount >= 0 /\ q.revisionCount <= 3

\* a question revised RevisionLimit times was re-enqueued: the pool holds it,
\* and the next CheckQuestion on it rejects it
C6_Witness ==
    \E id \in DOMAIN pool.questions :
        pool.questions[id].revisionCount = RevisionLimit

\* C7: every question emitted by a run carries the topic of that run's
\* GenerationRequest.
C7_EmittedTopic ==
    \A i \in 1..Len(sent) : sent[i].topic = req.topic

\* C8: for any two items A and B emitted in the same run, A first, the
\* CheckDuplicate call that cleared B was made with A in the accepted-set and
\* reported isDuplicate = false.
C8_JudgedAgainstEarlier ==
    \A j \in 1..Len(sent) :
        /\ sent[j].id \in DOMAIN dedupCalls
        /\ ~dedupCalls[sent[j].id].isDuplicate
        /\ \A i \in 1..(j - 1) : sent[i].id \in dedupCalls[sent[j].id].against

C8_Witness == Len(sent) = 2

\* C9: at most one Gateway call (Maker, Checker or Deduper) is in flight at
\* any instant of a run.
C9_OneCallInFlight == Len(inflight) <= 1

\* the Deduper's call is in flight, after the Maker's and the Checker's
C9_Witness == inflight = <<"dedup">>

\* a request GenerateQuizStream must refuse
InvalidRequest(r) == r.topic = "" \/ r.numQuestions <= 0

\* C10: GenerateQuizStream called with an empty topic or numQuestions <= 0
\* returns an error, starts no background task and issues no Gateway call;
\* for every valid request it returns a nil error.
C10_InvalidInputRejected ==
    runs > 0 =>
        IF InvalidRequest(req)
        THEN streamErr = "error" /\ ~Running /\ inflight = <<>>
        ELSE streamErr = "nil"

\* GenerateQuiz has returned a Quiz of the emitted items, in emission order
QuizOfEmitted ==
    /\ quizErr = "nil"
    /\ quiz.totalQuestions = req.numQuestions
    /\ quiz.questions = sent

\* C11: when a run reaches its target, GenerateQuiz (Collect) returns a Quiz
\* whose totalQuestions is request.numQuestions and whose questions are the
\* numQuestions emitted items in the order they were sent.
C11_CollectReturnsQuiz == TargetReached ~> QuizOfEmitted

\* C12: when the stream closes before numQuestions items were emitted,
\* GenerateQuiz (Collect) returns a Quiz holding exactly the items emitted so
\* far together with a non-nil error.
C12_PartialQuizWithError ==
    (quizErr # "none" /\ Len(sent) < req.numQuestions) =>
        (quizErr = "error" /\ quiz.questions = sent)

\* the last Maker call of the run returned an error
MakerFailed == makerErr # "nil"

\* C13: when a Maker call returns an error, the orchestrator issues no further
\* Gateway call, emits no further item and closes the outbound channel (which
\* carries Questions only, never an error value).
C13_MakerErrorEndsRun ==
    /\ [](MakerFailed => inflight = <<>>)
    /\ [][MakerFailed => sent' = sent /\ pc' \in {"deferred", "done", "blocked"}]_vars
    /\ (MakerFailed ~> chanClosed)

\* C14: retries after Gateway errors are bounded: a run in which every
\* Deduper call fails stops re-enqueueing the candidate after a bounded number
\* of retries, terminates and closes the channel.
C14_ErrorRetriesBounded == (pc = "dedup_wait") ~> chanClosed

\* the Maker responses of the conversation that carried no question
EmptyBatches ==
    Cardinality({ i \in DOMAIN messages :
                    /\ messages[i].role = "tool"
                    /\ messages[i].kind = "arguments"
                    /\ messages[i].n = 0 })

\* C15: when the Maker keeps completing without a candidate, the run ends: once
\* it has answered MaxEmptyBatches times with an empty questions list (and
\* never otherwise), the orchestrator does not call it again.
C15_EmptyBatchesEndRun ==
    EmptyBatches >= MaxEmptyBatches => pc # "maker_wait"

\* C16: state is scoped to one run: every run, also a later one on the same
\* QuizGenerator, starts with an empty pool, an empty accepted-set of the
\* Deduper and a Maker conversation holding only the system turn.
C16_RunStateScoped ==
    [][runs' = runs + 1 =>
        /\ pool' = NewQuestionPool
        /\ cache' = EmptyMap
        /\ messages' = NewQuestionMaker]_vars

\* the bijections of the four positions
Bijections4 ==
    { f \in [1..4 -> 1..4] : \A i, j \in 1..4 : f[i] = f[j] => i = j }

IsPermutationOf(a, b) ==
    /\ Len(a) = Len(b)
    /\ \E f \in Bijections4 : \A i \in 1..4 : a[i] = b[f[i]]

\* a question with four options and correctAnswer in 0..3 has been shuffled
Shuffled ==
    /\ pc = "select"
    /\ Len(preShuffle.options) = 4
    /\ preShuffle.correctAnswer \in 0..3

\* C17: for every question with four options and correctAnswer in 0..3 and
\* every permutation the randomizer can draw, the options after
\* randomizeAnswerOrder are a permutation of the options before, and
\* options[correctAnswer] is the same option as before the shuffle.
C17_ShufflePreservesAnswer ==
    Shuffled =>
        /\ IsPermutationOf(question.options, preShuffle.options)
        /\ question.correctAnswer \in 0..3
        /\ question.options[question.correctAnswer + 1]
             = preShuffle.options[preShuffle.correctAnswer + 1]

\* a shuffle that moved the correct option to another position
C17_Witness ==
    /\ Shuffled
    /\ question.options # preShuffle.options
    /\ question.correctAnswer # preShuffle.correctAnswer

\* the reason text holds the word "revision"
MentionsRevision(reason) == \E i \in 1..Len(reason) : reason[i] = "revision"

\* C18: CheckQuestion called on a question with revisionCount >= 3 returns
\* action reject with a reason containing "revision", returns no error and
\* issues no Gateway call.
C18_RevisionLimitRejects ==
    [][(/\ ~PoolIsEmpty(pool)
        /\ pool' = PoolGetRest(pool)
        /\ PoolGetQuestion(pool).revisionCount >= 3)
       => /\ validation'.action = ActionReject
          /\ MentionsRevision(validation'.reason)
          /\ validation'.err = "nil"
          /\ inflight' = inflight]_vars

\* CheckQuestion has just rejected a question at the revision limit
C18_Witness ==
    /\ validation.action = ActionReject
    /\ MentionsRevision(validation.reason)
    /\ pc = "loop"

\* C19: whenever the Checker returns revise with a revised question, the
\* revised question has the id and topic of the input question and a
\* revisionCount one greater, and it is the revised question that is put back
\* at the tail of the pool.
C19_RevisionRequeued ==
    [][(/\ pc = "check_wait"
        /\ validation'.action = ActionRevise
        /\ validation'.revised # NoQuestion)
       => LET r == validation'.revised IN
          /\ r.id = question.id
          /\ r.topic = question.topic
          /\ r.revisionCount = question.revisionCount + 1
          /\ pool'.queue = Append(pool.queue, r.id)
          /\ pool'.questions[r.id].options = r.options
          /\ pool'.questions[r.id].revisionCount = r.revisionCount]_vars

\* the Checker has just revised a question for the second time
C19_Witness ==
    /\ validation.action = ActionRevise
    /\ validation.revised # NoQuestion
    /\ validation.revised.revisionCount = 2
    /\ pc = "loop"

\* C20: whenever the accepted count has not advanced between two successive
\* pool refills, the later Maker call requests min(previous request + 2, 10)
\* items (7 after a first batch of 5 whose candidates were all rejected).
C20_BatchSizeGrows ==
    \A i \in 2..Len(refills) :
        refills[i].accepted = refills[i - 1].accepted =>
            refills[i].size = min(refills[i - 1].size + BatchSizeStep, BatchSizeCeiling)

\* the transitions of the status column
StatusMoves ==
    { <<"none", "generating">>, <<"generating", "ready">>,
      <<"ready", "completed">>, <<"generating", "completed">> }

SentIndex(id) == CHOOSE k \in 1..Len(sent) : sent[k].id = id

\* C22: the question_num values stored for a quiz are 1..k without gap or
\* repeat, in emission order, with k <= numQuestions, also when storing some
\* of the emitted questions failed.
C22_QuestionNumDense ==
    /\ \A i \in 1..Len(dbQuestions) :
          /\ dbQuestions[i].questionNum = i
          /\ \E k \in 1..Len(sent) : sent[k].id = dbQuestions[i].id
    /\ \A i, j \in 1..Len(dbQuestions) :
          i < j => SentIndex(dbQuestions[i].id) < SentIndex(dbQuestions[j].id)
    /\ dbQuestions # <<>> => Len(dbQuestions) <= req.numQuestions

\* storing the first emitted question failed and the second one was stored
C22_Witness ==
    /\ Len(sent) = 2
    /\ Len(dbQuestions) = 1
    /\ dbQuestions[1].id = sent[2].id

\* C23: the first Maker call of a run requests 5 items, and every later
\* request size is between 5 and 10 and not smaller than the request before
\* it in the same run.
C23_BatchSizeMonotone ==
    /\ refills # <<>> => refills[1].size = 5
    /\ \A i \in 1..Len(refills) : refills[i].size \in 5..10
    /\ \A i \in 2..Len(refills) : refills[i].size >= refills[i - 1].size

\* the request size has grown to the ceiling
C23_Witness ==
    /\ Len(refills) = 4
    /\ refills[3].size = 9
    /\ refills[4].size = 10

\* the candidate id was handed out and is neither in the pool nor under
\* judgement
Gone(id) ==
    /\ id <= nextId
    /\ id \notin DOMAIN pool.questions
    /\ question.id # id

SentIds == { sent[i].id : i \in 1..Len(sent) }

\* the candidate id is not in the pool p, not the candidate q under
\* judgement and not among the items s
DroppedIn(id, p, q, s) ==
    /\ id \notin DOMAIN p.questions
    /\ q.id # id
    /\ \A i \in 1..Len(s) : s[i].id # id

\* the candidate id has left the pipeline without being sent
Dropped(id) == Gone(id) /\ id \notin SentIds

\* the Checker's result drops the candidate: reject, or revise without a
\* revised question
DropsCandidate(result) ==
    /\ result.err = "nil"
    /\ \/ result.action = ActionReject
       \/ result.action = ActionRevise /\ result.revised = NoQuestion

\* C25: an item is sent only after, in this order, the Checker accepted the
\* content it has, the Deduper reported it non-duplicate and its options were
\* shuffled; a candidate the Checker rejected, one that got revise without a
\* revised question and one the Deduper reported duplicate is not sent and
\* not put back in the pool, then or later.
C25_EmitOnlyAfterPipeline ==
    [][/\ (pc' = "dedup" /\ pc # "dedup") =>
            /\ pc = "check_wait"
            /\ validation'.action = ActionAccept
            /\ validation'.err = "nil"
            /\ question' = question
       /\ (pc' = "dedup_wait" /\ pc # "dedup_wait") =>
            /\ pc = "dedup"
            /\ validation.action = ActionAccept
            /\ question' = question
       /\ (pc' = "select" /\ pc # "select") =>
            /\ pc \in {"dedup", "dedup_wait"}
            /\ validation.action = ActionAccept
            /\ ~dedupCalls'[question.id].isDuplicate
            /\ preShuffle' = [question EXCEPT !.status = StatusAccepted]
            /\ \E indices \in Permutations4 :
                  question' = randomizeAnswerOrder(preShuffle', indices)
       /\ (sent' # sent) =>
            /\ pc = "select"
            /\ sent' = Append(sent, question)
       /\ (pc = "check_wait" /\ DropsCandidate(validation')) =>
            /\ sent' = sent
            /\ DroppedIn(question.id, pool', question', sent')
       /\ (/\ ~PoolIsEmpty(pool)
           /\ pool' = PoolGetRest(pool)
           /\ DropsCandidate(validation')) =>
            /\ sent' = sent
            /\ DroppedIn(Head(pool.queue), pool', question', sent')
       /\ (/\ pc = "dedup_wait"
           /\ question.id \in DOMAIN dedupCalls'
           /\ dedupCalls'[question.id].isDuplicate) =>
            /\ sent' = sent
            /\ DroppedIn(question.id, pool', question', sent')
       /\ \A id \in 1..MaxIds :
            Dropped(id) => DroppedIn(id, pool', question', sent')]_vars

\* one item was sent after a revision, and the other candidate was dropped
\* as a duplicate of it
C25_Witness ==
    /\ Len(sent) = 1
    /\ sent[1].revisionCount >= 1
    /\ \E id \in 1..MaxIds :
          /\ Dropped(id)
          /\ id \in DOMAIN dedupCalls
          /\ dedupCalls[id].isDuplicate

\* the step is the return of a Checker or Deduper call with an error
GatewayErrorReturn ==
    \/ pc = "check_wait" /\ validation'.err = "error"
    \/ pc = "dedup_wait" /\ pc' = "loop" /\ dedupCalls' = dedupCalls

\* C26: when a Checker or Deduper call returns a Gateway error, nothing is
\* emitted and the same candidate (same id, content and revisionCount) is
\* appended at the tail of the pool, behind every candidate already waiting,
\* which stay as they are.
C26_ErrorRequeuesAtTail ==
    [][GatewayErrorReturn =>
        /\ sent' = sent
        /\ chanBuf' = chanBuf
        /\ pool'.queue = Append(pool.queue, question.id)
        /\ \A id \in DOMAIN pool.questions :
              pool'.questions[id] = pool.questions[id]
        /\ pool'.questions[question.id]
             = [question EXCEPT !.status = StatusTentative]]_vars

\* a Checker call on candidate 1 failed while candidate 2 was waiting:
\* candidate 1 is behind it
C26_Witness ==
    /\ validation.err = "error"
    /\ pool.queue = <<2, 1>>

\* C27: a CheckDuplicate call never removes or changes an entry of the
\* accepted-set; it adds exactly the candidate when the outcome is
\* non-duplicate and leaves the accepted-set unchanged when the outcome is
\* duplicate or the call fails; nothing else changes the accepted-set.
C27_CacheOnlyGrows ==
    [][/\ \A id \in DOMAIN cache :
             id \in DOMAIN cache' /\ cache'[id] = cache[id]
       /\ (pc \in {"dedup", "dedup_wait"} /\ pc' = "select") =>
             /\ DOMAIN cache' = DOMAIN cache \cup {question.id}
             /\ cache'[question.id] = question'
       /\ (pc \in {"dedup", "dedup_wait"} /\ pc' # "select") => cache' = cache
       /\ cache' # cache => pc \in {"dedup", "dedup_wait"}]_vars

\* a second candidate was added after a Gateway call reported non-duplicate
C27_Witness ==
    /\ pc = "select"
    /\ Cardinality(DOMAIN cache) = 2
    /\ question.id \in DOMAIN cache
    /\ dedupCalls[question.id].against # {}

\* C28: the first CheckDuplicate call of a run finds the accepted-set empty:
\* it is answered without a Gateway call, reports isDuplicate = false and
\* puts the candidate in the accepted-set; so in a run with numQuestions = 1
\* every CheckDuplicate call is that one, and the item sent is the first
\* candidate the Checker accepted.
C28_FirstCallSeeds ==
    RunStarted =>
        /\ dedupCalls = EmptyMap => pc # "dedup_wait"
        /\ \A id \in DOMAIN dedupCalls :
              dedupCalls[id].against = {} =>
                 ~dedupCalls[id].isDuplicate /\ id \in DOMAIN cache
        /\ req.numQuestions = 1 =>
              \A id \in DOMAIN dedupCalls :
                 /\ dedupCalls[id].against = {}
                 /\ sent # <<>> => sent[1].id = id

\* the questions in the pool, in queue order
PoolContents(p) == [i \in 1..Len(p.queue) |-> p.questions[p.queue[i]]]

ConversationInOrder(msgs) ==
    /\ Len(msgs) >= 2
    /\ msgs[1] = SystemMessage
    /\ (Len(msgs) - 2) % 3 = 0
    /\ \A j \in 1..((Len(msgs) - 2) \div 3) :
          /\ msgs[3 * j - 1].role = "user"
          /\ msgs[3 * j].role = "assistant"
          /\ msgs[3 * j].kind = "toolcall"
          /\ msgs[3 * j + 1].role = "tool"
          /\ msgs[3 * j + 1].kind = "arguments"
          /\ msgs[3 * j + 1].n = msgs[3 * j].n
    /\ msgs[Len(msgs)].role = "user"

\* C30: every Maker request after the first in a run carries the whole prior
\* conversation in order: the system turn, then for each earlier call its
\* user turn followed by the assistant tool-call turn and the tool turn
\* holding the returned items, the user turns of the run's calls asking for
\* the sizes requested, in the order of the calls.
C30_RequestCarriesConversation ==
    (pc = "maker_wait" /\ Len(refills) >= 2) =>
        /\ ConversationInOrder(messages)
        /\ \A i \in 1..Len(refills) :
              LET at == Len(messages) - 3 * (Len(refills) - i)
              IN  /\ at >= 2
                  /\ messages[at].role = "user"
                  /\ messages[at].n = refills[i].size

\* the user turns of the conversation
UserTurns(msgs) == { i \in 1..Len(msgs) : msgs[i].role = "user" }

\* C31: in every run the user turn of the first Maker request carries the
\* full context and the user turn of every later Maker request of the run is
\* the short request for more items, so the full context (with the source
\* material) is put in the conversation exactly once per run.
C31_FirstTurnFull ==
    (RunStarted /\ pc = "maker_wait") =>
        LET turn == messages[Len(messages)]
        IN  /\ turn.role = "user"
            /\ turn.kind = IF Len(refills) = 1 THEN "full" ELSE "more"
            /\ turn.n = refills[Len(refills)].size
            /\ Cardinality({ i \in UserTurns(messages) :
                               i > Len(messages) - 3 * Len(refills)
                               /\ messages[i].kind = "full" }) = 1

\* a response with zero choices, with zero tool calls, or whose first tool
\* call does not have the forced name
ProtocolFault(resp, forced) ==
    /\ resp.received
    /\ ~resp.err
    /\ \/ resp.choices = 0
       \/ Len(resp.toolCalls) = 0
       \/ resp.toolCalls[1] # forced

\* C32: in each of the three stages a Gateway response with zero choices,
\* with zero tool calls, or whose first tool call has a name other than the
\* forced one yields an error and no result: the Maker returns no questions
\* (and the run ends), the Checker returns no verdict, the Deduper reports
\* nothing and leaves the accepted-set as it was (the orchestrator puts the
\* candidate back in the pool in the last two cases).
C32_ProtocolErrorNoResult ==
    [][(/\ WaitingStage # "none"
        /\ ProtocolFault(response, ForcedTool(WaitingStage))
        /\ pc' # pc)
       => /\ pc = "maker_wait" =>
                /\ makerErr' = "error"
                /\ pool' = pool
                /\ nextId' = nextId
                /\ messages' = messages
                /\ pc' = "deferred"
          /\ pc = "check_wait" =>
                /\ validation' = CheckError
                /\ pool' = PoolAdd(pool, question)
                /\ cache' = cache
                /\ sent' = sent
                /\ pc' = "loop"
          /\ pc = "dedup_wait" =>
                /\ cache' = cache
                /\ dedupCalls' = dedupCalls
                /\ pool' = PoolAdd(pool, question)
                /\ sent' = sent
                /\ pc' = "loop"]_vars

\* the Checker was answered with a submit_questions tool call whose
\* arguments parse: CheckQuestion returned an error and the candidate is
\* back in the pool
C32_Witness ==
    /\ response.received
    /\ ~response.err
    /\ response.choices = 1
    /\ response.toolCalls = <<"submit_questions", "evaluate_question">>
    /\ response.parses
    /\ pc = "loop"
    /\ validation = CheckError
    /\ pool.queue = <<2, 1>>

\* C33: every Transcript Logger operation the orchestrator goroutine calls
\* takes the logger's mutex and returns: while the goroutine runs, the mutex
\* is free whenever a stage logs; the goroutine is never left waiting inside
\* Close; and when the goroutine has ended, Close has closed the file and
\* released the mutex.
C33_LoggerOperationsReturn ==
    /\ (Running /\ logger # "nil") => MutexCanLock(loggerMu)
    /\ pc # "blocked"
    /\ (pc = "done" /\ deferLogger) =>
          /\ logger = "closed"
          /\ loggerMu = "unlocked"

\* the fields of a Question other than Options and CorrectAnswer
FrameFields == {"id", "text", "explanation", "topic", "status", "revisionCount"}

\* C34: randomizeAnswerOrder called on a question whose options are not four
\* leaves the question entirely unchanged; called on a question with four
\* options it changes nothing but options and correctAnswer.
C34_ShuffleFrame ==
    pc = "select" =>
        /\ Len(preShuffle.options) # 4 => question = preShuffle
        /\ DOMAIN question = DOMAIN preShuffle
        /\ \A f \in FrameFields \cap DOMAIN preShuffle : question[f] = preShuffle[f]

\* a call on a question with five options
C34_Witness ==
    /\ pc = "select"
    /\ Len(preShuffle.options) = 5
    /\ preShuffle.text = "text"
    /\ question = preShuffle

\* C35: the outbound channel's capacity is numQuestions and the orchestrator
\* stops after numQuestions sends: the items buffered and not yet received
\* never exceed the capacity, and whenever the orchestrator is at its send
\* the buffer has room, however slow the consumer is.
C35_SendNeverBlocks ==
    RunStarted =>
        /\ Len(chanBuf) <= req.numQuestions
        /\ Len(chanBuf) = Len(sent) - Len(acceptedQuestions)
        /\ pc = "select" => Len(chanBuf) < req.numQuestions

\* the orchestrator is at its second send and the consumer has received
\* nothing
C35_Witness ==
    /\ pc = "select"
    /\ req.numQuestions = 2
    /\ Len(chanBuf) = 1
    /\ acceptedQuestions = <<>>

\* C36: in every state of a run on a fresh generator the ids of the emitted
\* items are in the Deduper's accepted-set, the accepted-set holds at most
\* one id that was not emitted, and once the run has reached its target the
\* two sets are equal (one id for a target of 1).
C36_AcceptedSetIsEmitted ==
    RunStarted =>
        /\ SentIds \subseteq DOMAIN cache
        /\ Cardinality(DOMAIN cache \ SentIds) <= 1
        /\ acceptedCount = req.numQuestions =>
              /\ DOMAIN cache = SentIds
              /\ req.numQuestions = 1 => Cardinality(DOMAIN cache) = 1

\* the context was cancelled at the send: the run ended with one item
\* emitted and a second id in the accepted-set that never was
C36_Witness ==
    /\ pc = "done"
    /\ cancelled
    /\ Len(sent) = 1
    /\ Cardinality(DOMAIN cache) = 2

\* the ids in the queue of pool p are all different
QueueHasNoRepeats(p) ==
    \A i, j \in 1..Len(p.queue) : p.queue[i] = p.queue[j] => i = j

\* C37: in every state of a run each question id occurs at most once in the
\* pool's queue and the ids of the queue are exactly the keys of the pool's
\* map, so Get on a non-empty pool returns a question (the one filed under
\* the id at the head) and no id is emitted twice.
C37_PoolQueueMatchesMap ==
    /\ QueueHasNoRepeats(pool)
    /\ { pool.queue[i] : i \in 1..Len(pool.queue) } = DOMAIN pool.questions
    /\ \A id \in DOMAIN pool.questions : pool.questions[id].id = id
    /\ ~PoolIsEmpty(pool) =>
          /\ PoolGet(pool).question # NoQuestion
          /\ PoolGet(pool).question.id = Head(pool.queue)
    /\ \A i, j \in 1..Len(sent) : sent[i].id = sent[j].id => i = j
    /\ question # NoQuestion => question.id \notin DOMAIN pool.questions
    /\ \A id \in SentIds : id \notin DOMAIN pool.questions

\* an item has been emitted and the other candidate was put back after a
\* Gateway error
C37_Witness ==
    /\ pool.queue = <<2>>
    /\ SentIds = {1}
    /\ validation = CheckError

\* C38: in a multiplayer session, for every question and every player, the
\* player's score is incremented at most once for that question, however
\* handleSubmitAnswer requests interleave and also when an answer to a
\* question already completed is submitted again.
C38_ScoredOncePerQuestion ==
    \A k \in DOMAIN scoreLog : scoreLog[k] <= 1

\* C39: no player is added to session.Players once the session status has
\* left waiting, however a handleJoinSession request interleaves with a
\* handleStartGame request.
C39_NoJoinAfterStart ==
    [][Len(session'.Players) > Len(session.Players) =>
          session'.Status = "waiting"]_vars

\* every player of the session has an answer recorded for question num
AllPlayersAnswered(s, num) ==
    /\ num \in DOMAIN s.Answers
    /\ PlayerIDs(s) \subseteq DOMAIN s.Answers[num]

\* C40: in a session that is playing, CurrentQ never decreases and advances
\* by exactly one, and only when every player of the session has answered
\* question CurrentQ; the status only moves from waiting to playing and from
\* playing to completed.
C40_CurrentQAdvancesByOne ==
    [][/\ session.Status = "playing" =>
             /\ session'.CurrentQ >= session.CurrentQ
             /\ session'.CurrentQ # session.CurrentQ =>
                   /\ session'.CurrentQ = session.CurrentQ + 1
                   /\ AllPlayersAnswered(session, session.CurrentQ)
       /\ session'.Status # session.Status =>
             <<session.Status, session'.Status>> \in
                 { <<"none", "waiting">>, <<"waiting", "playing">>,
                   <<"playing", "completed">> }]_vars

====
